---- MODULE Spec2Model ----
(***************************************************************************)
(* Model of backup.py: the full/incremental decision taken by main() and   *)
(* the retention pruning done by prune_old_backups().                      *)
(*                                                                         *)
(* A directory name is a record of the fixed-width fields of               *)
(*   YYYY-MM-DDTHH-MM-SS_<kind>                                            *)
(* month and day are the two fields of the date part (the year is held     *)
(* fixed), time is the time-of-day part, suffix is the text after it.      *)
(* Because every field has a fixed width, Python's string comparison of    *)
(* two names is the field-by-field comparison StrLess below.  Names that   *)
(* do not follow the convention are records whose date fields are out of   *)
(* range (such as month 00 or a day past the end of the month) or whose    *)
(* suffix is neither "_full" nor "_incremental".                           *)
(*                                                                         *)
(* Time is counted in ticks; a day has TicksPerDay ticks and a month has   *)
(* DaysInMonth days.                                                       *)
(***************************************************************************)
EXTENDS Integers, Sequences, FiniteSets, TLC

\* ---- bounds of the model -------------------------------------------------
MaxClock == 5
DaysInMonth == 2
TicksPerDay == 2
MaxRetention == 1
MaxPruneRuns == 2
MaxRuns == 3

\* months a date string may name (strptime's %m accepts 01..12)
MonthsInYear == 12

VARIABLES
    dirs,              \* names of the subdirectories of BACKUP_DIR
    manifests,         \* the subdirectories that hold a backup_manifest file
    rootExists,        \* whether BACKUP_DIR itself exists
    clock,             \* datetime.now(), in ticks
    RETENTION_DAYS,    \* configuration, read once from the environment
    FULL_BACKUP_DAY,   \* configuration, read once from the environment
    pc,                \* where the script is: "idle", "run_command", "prune", "prune_only"
    runs,              \* how many times the script has been started
    exitCode,          \* exit status of the last finished run
    outcome,           \* how the last run ended (the log line that ends it)
    today,             \* main's `today`
    listed,            \* what os.listdir returned to find_latest_backup, in its order
    latest_backup_path,\* main's latest_backup_path: {} is None, {n} is the directory n
    backup_path,       \* main's backup_path: {} before planning, {n} the new directory
    manifest_path,     \* the directory whose manifest is given to --incremental
    dirsAtStart,       \* dirs when the run began
    prunes,            \* the prune_old_backups calls so far: what each saw and did
    PG_USER,           \* whether PGUSER was set in the environment of the last run
    PG_HOST,           \* whether PGHOST was set in the environment of the last run
    returncode,        \* exit status of pg_basebackup in the last run: {} not run, {0}, {1}
    made               \* for each directory on disk that a run wrote: its name, the
                       \* `today` of that run and the directory whose manifest it
                       \* was built on ({} for a full backup)

vars == <<dirs, manifests, rootExists, clock, RETENTION_DAYS, FULL_BACKUP_DAY, pc,
          runs, exitCode, outcome, today, listed, latest_backup_path, backup_path,
          manifest_path, dirsAtStart, prunes, PG_USER, PG_HOST, returncode, made>>

\* ---- names and strings ----------------------------------------------------
MkName(m, d, t, s) == [month |-> m, day |-> d, time |-> t, suffix |-> s]

\* rank of a suffix in string order: "_full" < "_incremental" < "_tmp"
SuffixRank(s) == CASE s = "_full" -> 0 [] s = "_incremental" -> 1 [] OTHER -> 2

\* Python's a < b on two directory names
StrLess(a, b) ==
    \/ a.month < b.month
    \/ a.month = b.month /\ a.day < b.day
    \/ a.month = b.month /\ a.day = b.day /\ a.time < b.time
    \/ a.month = b.month /\ a.day = b.day /\ a.time = b.time
         /\ SuffixRank(a.suffix) < SuffixRank(b.suffix)

StrLeq(a, b) == a = b \/ StrLess(a, b)

Range(s) == {s[i] : i \in 1..Len(s)}

\* a timestamp written day first, as "%d-%m-%YT%H-%M-%S" would
strftime_day_first(instant, suffix) ==
    LET ord == instant \div TicksPerDay
    IN  MkName((ord % DaysInMonth) + 1, (ord \div DaysInMonth) + 1,
               instant % TicksPerDay, suffix)

\* today.strftime("%Y-%m-%dT%H-%M-%S") followed by the kind suffix
strftime(instant, suffix) ==
    LET ord == instant \div TicksPerDay
    IN  MkName((ord \div DaysInMonth) + 1, (ord % DaysInMonth) + 1,
               instant % TicksPerDay, suffix)

\* today.day
DayOfMonth(instant) == ((instant \div TicksPerDay) % DaysInMonth) + 1

\* d.endswith("_full")
endswith_full(d) == d.suffix = "_full"

\* full_backup_name.split('T')[0]
split_T(d) == <<d.month, d.day>>

\* whether datetime.strptime(s, '%Y-%m-%d') succeeds (no ValueError)
strptime_ok(s) == s[1] \in 1..MonthsInYear /\ s[2] \in 1..DaysInMonth

\* datetime.strptime(s, '%Y-%m-%d'): midnight of that date, in ticks
strptime(s) == (((s[1] - 1) * DaysInMonth) + (s[2] - 1)) * TicksPerDay

\* timedelta(days=n), in ticks
timedelta(n) == n * TicksPerDay

\* ---- sorted() ---------------------------------------------------------------
Insert(x, s) ==
    LET k == Cardinality({i \in 1..Len(s) : StrLess(s[i], x)})
    IN  SubSeq(s, 1, k) \o <<x>> \o SubSeq(s, k + 1, Len(s))

RECURSIVE sorted(_)
sorted(s) == IF s = <<>> THEN <<>> ELSE Insert(Head(s), sorted(Tail(s)))

\* ---- os.listdir: the subdirectories, in an order the filesystem chooses ------
\* (the orders drawn are the rotations of the ascending and of the descending
\* order, so that every directory comes last, and first, in some listing)
RECURSIVE Ascending(_)
Ascending(S) ==
    IF S = {} THEN <<>>
    ELSE LET m == CHOOSE x \in S : \A y \in S : StrLeq(x, y)
         IN  <<m>> \o Ascending(S \ {m})

Reverse(s) == [i \in 1..Len(s) |-> s[Len(s) + 1 - i]]

Rotate(s, k) == SubSeq(s, k + 1, Len(s)) \o SubSeq(s, 1, k)

listdir(S) ==
    IF S = {} THEN {<<>>}
    ELSE {Rotate(Ascending(S), k) : k \in 0..(Cardinality(S) - 1)}
         \cup {Rotate(Reverse(Ascending(S)), k) : k \in 0..(Cardinality(S) - 1)}

\* ---- find_latest_backup ------------------------------------------------------
\* the last entry of the listing as the filesystem returned it
find_latest_backup_unsorted(listing, exists) ==
    IF ~exists THEN {}
    ELSE IF listing = <<>> THEN {}
    ELSE {listing[Len(listing)]}

\* {} is None; otherwise the one directory whose path is returned
find_latest_backup(listing, exists) ==
    IF ~exists THEN {}
    ELSE LET backups == listing
         IN  IF backups = <<>> THEN {}
             ELSE {sorted(backups)[Len(backups)]}

\* ---- the decision of main -----------------------------------------------------
\* a full backup only when nothing exists yet
plan_suffix_bootstrap_only(is_full_backup_day, latest) ==
    IF latest = {} THEN "_full" ELSE "_incremental"

\* the suffix of the directory main creates
plan_suffix(is_full_backup_day, latest) ==
    IF is_full_backup_day \/ latest = {} THEN "_full" ELSE "_incremental"

\* ---- prune_old_backups ----------------------------------------------------------
\* the set between two fulls, without the full that starts it
dirs_to_delete_exclusive(all_dirs, start_dir, end_dir) ==
    SelectSeq(all_dirs, LAMBDA d : StrLess(start_dir, d) /\ StrLess(d, end_dir))

\* [d for d in all_dirs if d >= start_dir and d < end_dir]
dirs_to_delete(all_dirs, start_dir, end_dir) ==
    SelectSeq(all_dirs, LAMBDA d : ~StrLess(d, start_dir) /\ StrLess(d, end_dir))

\* a comparison that also counts a date exactly `retention` days back as old
older_than_retention_inclusive(now, backup_date, retention) ==
    now - backup_date >= timedelta(retention)

\* now - backup_date > retention_delta
older_than_retention(now, backup_date, retention) ==
    now - backup_date > timedelta(retention)

\* a parser that accepts every date string
parses_anything(name) == TRUE

\* the try block of the loop: the date of the name parses
parses(name) == strptime_ok(split_T(name))

\* the loop, stopping after the first set it deletes
prune_loop_first_only(full_backups, all_dirs, now, retention) ==
    LET hit == {i \in 1..(Len(full_backups) - 1) :
                   /\ parses(full_backups[i])
                   /\ older_than_retention(now, strptime(split_T(full_backups[i])),
                                           retention)}
    IN  IF hit = {} THEN <<>>
        ELSE LET i == CHOOSE j \in hit : \A k \in hit : j <= k
             IN  dirs_to_delete(all_dirs, full_backups[i], full_backups[i + 1])

\* the body of `for i, full_backup_name in enumerate(full_backups[:-1])`, from
\* index i on: the directories handed to shutil.rmtree, in order
RECURSIVE loop_from(_, _, _, _, _)
loop_from(i, full_backups, all_dirs, now, retention) ==
    IF i > Len(full_backups) - 1 THEN <<>>
    ELSE LET full_backup_name == full_backups[i]
             rest == loop_from(i + 1, full_backups, all_dirs, now, retention)
         IN  IF ~parses(full_backup_name) THEN rest
             ELSE IF older_than_retention(now, strptime(split_T(full_backup_name)),
                                          retention)
                  THEN dirs_to_delete(all_dirs, full_backup_name, full_backups[i + 1])
                       \o rest
                  ELSE rest

prune_loop(full_backups, all_dirs, now, retention) ==
    loop_from(1, full_backups, all_dirs, now, retention)

\* every expired set is deleted, the newest one included
prune_unprotected(listing, exists, now, retention) ==
    IF ~exists THEN <<>>
    ELSE LET all_dirs == sorted(listing)
             fulls == SelectSeq(all_dirs, endswith_full)
         IN  SelectSeq(all_dirs, LAMBDA d :
                 \E i \in 1..Len(fulls) :
                    /\ parses(fulls[i])
                    /\ older_than_retention(now, strptime(split_T(fulls[i])), retention)
                    /\ StrLeq(fulls[i], d)
                    /\ (i < Len(fulls) => StrLess(d, fulls[i + 1])))

\* the directories prune_old_backups hands to shutil.rmtree, in order
prune_old_backups(listing, exists, now, retention) ==
    IF ~exists THEN <<>>
    ELSE LET all_dirs == sorted(listing)
             full_backups == sorted(SelectSeq(all_dirs, endswith_full))
         IN  IF Len(full_backups) <= 1 THEN <<>>
             ELSE prune_loop(full_backups, all_dirs, now, retention)

\* what one call of prune_old_backups saw and did
PruneRecord(listing, exists, now, attempted, failed) ==
    [all_dirs  |-> IF exists THEN sorted(listing) ELSE <<>>,
     root      |-> exists,
     now       |-> now,
     attempted |-> attempted,
     failed    |-> failed]

\* the directories a call removed
Deleted(rec) == Range(rec.attempted) \ rec.failed

\* ---- the checks of main ------------------------------------------------------------
\* a check that looks at PGUSER only
config_ok_user_only(user, host) == user

\* `if not PG_USER or not PG_HOST` does not exit
config_ok(user, host) == user /\ host

\* a check that finds a manifest everywhere
manifest_found_always(latest, have) == TRUE

\* os.path.exists(manifest_path), for the manifest of the directory `latest`
manifest_exists(latest, have) == latest \subseteq have

\* ---- the state machine ----------------------------------------------------------
NoPrunes == <<>>

\* directories the backup root may hold before the first run: a "_full" whose
\* date does not parse (month 00), a "_full" stamped far in the future, and a
\* directory that is no backup at all (it holds no backup_manifest)
Preexisting ==
    {MkName(0, 1, 0, "_full"),
     MkName(MonthsInYear, DaysInMonth, 0, "_full"),
     MkName(MonthsInYear + 1, 0, 0, "_tmp")}

Init ==
    /\ dirs \in SUBSET Preexisting
    /\ manifests = {d \in dirs : d.suffix # "_tmp"}
    /\ rootExists \in (IF dirs = {} THEN BOOLEAN ELSE {TRUE})
    /\ clock = 0
    /\ RETENTION_DAYS \in 0..MaxRetention
    /\ FULL_BACKUP_DAY \in 1..DaysInMonth
    /\ pc = "idle"
    /\ runs = 0
    /\ exitCode = 0
    /\ outcome = "not_run"
    /\ today = 0
    /\ listed = <<>>
    /\ latest_backup_path = {}
    /\ backup_path = {}
    /\ manifest_path = {}
    /\ dirsAtStart = dirs
    /\ prunes = NoPrunes
    /\ PG_USER = TRUE
    /\ PG_HOST = TRUE
    /\ returncode = {}
    /\ made = {}

\* main, from its start to sys.exit(1) or to the call of run_command; the script
\* is started at some time t not before the last event
MainStart ==
    /\ pc = "idle"
    /\ runs < MaxRuns
    /\ runs' = runs + 1
    /\ \E t \in clock..MaxClock, user \in BOOLEAN, host \in BOOLEAN :
         /\ clock' = t
         /\ today' = t
         /\ PG_USER' = user
         /\ PG_HOST' = host
         /\ IF ~config_ok(user, host)
            THEN /\ pc' = "idle"
                 /\ exitCode' = 1
                 /\ outcome' = "config_missing"
                 /\ listed' = <<>>
                 /\ latest_backup_path' = {}
                 /\ backup_path' = {}
                 /\ manifest_path' = {}
                 /\ UNCHANGED rootExists
            ELSE \E listing \in listdir(dirs) :
                 LET is_full_backup_day == (DayOfMonth(t) = FULL_BACKUP_DAY)
                     latest == find_latest_backup(listing, TRUE)
                     suffix == plan_suffix(is_full_backup_day, latest)
                 IN  /\ rootExists' = TRUE
                     /\ latest_backup_path' = latest
                     /\ IF suffix = "_full"
                        THEN /\ backup_path' = {strftime(t, "_full")}
                             /\ manifest_path' = {}
                             /\ listed' = listing
                             /\ pc' = "run_command"
                             /\ UNCHANGED <<exitCode, outcome>>
                        ELSE IF manifest_exists(latest, manifests)
                        THEN /\ backup_path' = {strftime(t, "_incremental")}
                             /\ manifest_path' = latest
                             /\ listed' = listing
                             /\ pc' = "run_command"
                             /\ UNCHANGED <<exitCode, outcome>>
                        ELSE /\ backup_path' = {}
                             /\ manifest_path' = {}
                             /\ listed' = <<>>
                             /\ pc' = "idle"
                             /\ exitCode' = 1
                             /\ outcome' = "manifest_missing"
    /\ dirsAtStart' = dirs
    /\ prunes' = NoPrunes
    /\ returncode' = {}
    /\ UNCHANGED <<dirs, manifests, RETENTION_DAYS, FULL_BACKUP_DAY, made>>

\* run_command returns at some time t: pg_basebackup wrote the new directory and
\* its manifest (it refuses a target directory that exists and is not empty)
RunCommandOk ==
    /\ pc = "run_command"
    /\ backup_path \cap dirs = {}
    /\ \E t \in clock..MaxClock : clock' = t
    /\ dirs' = dirs \cup backup_path
    /\ manifests' = manifests \cup backup_path
    /\ made' = made \cup {[name |-> n, at |-> today, anchor |-> manifest_path] :
                             n \in backup_path}
    /\ returncode' = {0}
    /\ listed' = <<>>
    /\ pc' = "prune"
    /\ UNCHANGED <<rootExists, RETENTION_DAYS, FULL_BACKUP_DAY, runs, exitCode, outcome,
                   today, latest_backup_path, backup_path, manifest_path,
                   dirsAtStart, prunes, PG_USER, PG_HOST>>

\* a failed backup command that is logged and not raised again
RunCommandFailSwallowed ==
    /\ pc = "run_command"
    /\ \E t \in clock..MaxClock : clock' = t
    /\ listed' = <<>>
    /\ returncode' = {1}
    /\ pc' = "prune"
    /\ UNCHANGED <<dirs, manifests, rootExists, RETENTION_DAYS, FULL_BACKUP_DAY, runs,
                   exitCode, outcome, today, latest_backup_path, backup_path,
                   manifest_path, dirsAtStart, prunes, PG_USER, PG_HOST, made>>

\* run_command raises CalledProcessError at some time t: the handler at the
\* bottom of the script exits with 1
RunCommandFail ==
    /\ pc = "run_command"
    /\ \E t \in clock..MaxClock : clock' = t
    /\ listed' = <<>>
    /\ pc' = "idle"
    /\ exitCode' = 1
    /\ outcome' = "backup_failed"
    /\ returncode' = {1}
    /\ UNCHANGED <<dirs, manifests, rootExists, RETENTION_DAYS, FULL_BACKUP_DAY, runs,
                   today, latest_backup_path, backup_path, manifest_path,
                   dirsAtStart, prunes, PG_USER, PG_HOST, made>>

\* a call of prune_old_backups that gives up at the first rmtree that fails
PruneCallStopsAtFailure(now) ==
    \E listing \in listdir(dirs) :
       LET planned == prune_old_backups(listing, rootExists, now, RETENTION_DAYS)
       IN  \E k \in 0..Len(planned) :
              LET attempted == IF k = 0 THEN planned ELSE SubSeq(planned, 1, k)
                  failed == IF k = 0 THEN {} ELSE {planned[k]}
              IN  /\ dirs' = dirs \ (Range(attempted) \ failed)
                  /\ manifests' = manifests \ (Range(attempted) \ failed)
                  /\ made' = {m \in made : m.name \in dirs'}
                  /\ prunes' = Append(prunes,
                                      PruneRecord(listing, rootExists, now, attempted,
                                                  failed))

\* one call of prune_old_backups at time `now`; each rmtree may fail
PruneCall(now) ==
    \E listing \in listdir(dirs) :
       LET attempted == prune_old_backups(listing, rootExists, now, RETENTION_DAYS)
       IN  \E failed \in SUBSET Range(attempted) :
              /\ dirs' = dirs \ (Range(attempted) \ failed)
              /\ manifests' = manifests \ (Range(attempted) \ failed)
              /\ made' = {m \in made : m.name \in dirs'}
              /\ prunes' = Append(prunes,
                                  PruneRecord(listing, rootExists, now, attempted, failed))

\* an end of main that reports a failed deletion in the exit status
PruneExitsOnFailure ==
    /\ pc = "prune"
    /\ PruneCall(clock)
    /\ pc' = "idle"
    /\ exitCode' = (IF prunes'[Len(prunes')].failed = {} THEN 0 ELSE 1)
    /\ outcome' = (IF prunes'[Len(prunes')].failed = {} THEN "success"
                   ELSE "deletion_failed")
    /\ UNCHANGED <<rootExists, clock, RETENTION_DAYS, FULL_BACKUP_DAY, runs, today,
                   listed, latest_backup_path, backup_path, manifest_path, dirsAtStart,
                   PG_USER, PG_HOST, returncode>>

\* main, from the call of prune_old_backups to its end
Prune ==
    /\ pc = "prune"
    /\ PruneCall(clock)
    /\ pc' = "idle"
    /\ exitCode' = 0
    /\ outcome' = "success"
    /\ UNCHANGED <<rootExists, clock, RETENTION_DAYS, FULL_BACKUP_DAY, runs, today,
                   listed, latest_backup_path, backup_path, manifest_path, dirsAtStart,
                   PG_USER, PG_HOST, returncode>>

Next == MainStart \/ RunCommandOk \/ RunCommandFail \/ Prune

Spec == Init /\ [][Next]_vars

\* the runs in which no rmtree fails
PruneNoFailure == Prune /\ prunes'[Len(prunes')].failed = {}

NextNoFailure == MainStart \/ RunCommandOk \/ RunCommandFail \/ PruneNoFailure

SpecNoFailure == Init /\ [][NextNoFailure]_vars

\* ---- prune_old_backups on its own ------------------------------------------------
\* The listings prune_old_backups is applied to: a stray directory sorting first,
\* three conventional chains (a full and an incremental each) and, between the
\* first and the second, a chain whose full has a date that does not parse (a
\* day past the end of the month).
PruneUniverse ==
    {MkName(0, 0, 0, "_tmp"),
     strftime(0, "_full"),
     strftime(1, "_incremental"),
     MkName(1, DaysInMonth + 1, 0, "_full"),
     MkName(1, DaysInMonth + 1, 1, "_incremental"),
     strftime(DaysInMonth * TicksPerDay, "_full"),
     strftime((DaysInMonth * TicksPerDay) + 1, "_incremental"),
     strftime((DaysInMonth + 1) * TicksPerDay, "_full"),
     strftime(((DaysInMonth + 1) * TicksPerDay) + 1, "_incremental")}

InitPrune ==
    /\ dirs \in SUBSET PruneUniverse
    /\ manifests = {d \in dirs : d.suffix # "_tmp"}
    /\ rootExists \in (IF dirs = {} THEN BOOLEAN ELSE {TRUE})
    /\ clock \in 0..MaxClock
    /\ RETENTION_DAYS \in 0..MaxRetention
    /\ FULL_BACKUP_DAY = 1
    /\ pc = "prune_only"
    /\ runs = 0
    /\ exitCode = 0
    /\ outcome = "not_run"
    /\ today = clock
    /\ listed = <<>>
    /\ latest_backup_path = {}
    /\ backup_path = {}
    /\ manifest_path = {}
    /\ dirsAtStart = dirs
    /\ prunes = NoPrunes
    /\ PG_USER = TRUE
    /\ PG_HOST = TRUE
    /\ returncode = {}
    /\ made = {}

\* prune_old_backups called again on what the last call left, at the same `now`
PruneOnly ==
    /\ pc = "prune_only"
    /\ Len(prunes) < MaxPruneRuns
    /\ PruneCall(clock)
    /\ UNCHANGED <<rootExists, clock, RETENTION_DAYS, FULL_BACKUP_DAY, pc, runs, exitCode,
                   outcome, today, listed, latest_backup_path, backup_path,
                   manifest_path, dirsAtStart, PG_USER, PG_HOST, returncode>>

NextPrune == PruneOnly

SpecPrune == InitPrune /\ [][NextPrune]_vars

\* ---- vocabulary of the properties ---------------------------------------------------
\* the FULL sets of a listing
Fulls(S) == {d \in S : d.suffix = "_full"}

\* the last FULL of a listing in sort order
LastFull(S) == CHOOSE f \in Fulls(S) : \A g \in Fulls(S) : StrLeq(g, f)

\* the greatest name of a listing
MaxName(S) == CHOOSE x \in S : \A y \in S : StrLeq(y, x)

\* the chain anchored by the FULL f: f and what sorts after it, before the next FULL
Chain(S, f) ==
    {d \in S : StrLeq(f, d) /\ \A g \in Fulls(S) : StrLess(f, g) => StrLess(d, g)}

\* the date in the name of f is a calendar date
DateParses(f) == f.month \in 1..MonthsInYear /\ f.day \in 1..DaysInMonth

\* midnight of the date in the name of f is more than `retention` days before now
Expired(f, now, retention) ==
    now - ((((f.month - 1) * DaysInMonth) + (f.day - 1)) * TicksPerDay)
        > retention * TicksPerDay

\* the listing the i-th prune call saw, and what was on disk when it returned
Before(i) == Range(prunes[i].all_dirs)
After(i) == IF i < Len(prunes) THEN Range(prunes[i + 1].all_dirs) ELSE dirs
Gone(i) == Before(i) \ After(i)

\* ---- properties --------------------------------------------------------------------

\* C1: whenever the listing a prune call saw holds a FULL set, the call removed
\* neither the last FULL in sort order nor any directory sorting at or after it,
\* and did not even hand one of them to rmtree, whatever `now` and the retention.
C1_CurrentChainUntouched ==
    \A i \in 1..Len(prunes) :
       Fulls(Before(i)) # {} =>
          \A d \in Before(i) :
             StrLeq(LastFull(Before(i)), d) =>
                /\ d \in After(i)
                /\ d \notin Range(prunes[i].attempted)

\* a call that removed an older chain while the last FULL, itself older than the
\* retention period, and an incremental after it stayed
C1_Witness ==
    \E i \in 1..Len(prunes) :
       /\ Gone(i) # {}
       /\ Fulls(Before(i)) # {}
       /\ DateParses(LastFull(Before(i)))
       /\ Expired(LastFull(Before(i)), prunes[i].now, RETENTION_DAYS)
       /\ Cardinality(Chain(Before(i), LastFull(Before(i)))) >= 2
       /\ Chain(Before(i), LastFull(Before(i))) \subseteq After(i)

C5_ExactlyExpiredSupersededChains ==
    \A i \in 1..Len(prunes) :
       (prunes[i].failed = {} /\ Cardinality(Fulls(Before(i))) >= 2) =>
          /\ Gone(i) =
               {d \in Before(i) :
                  \E f \in Fulls(Before(i)) \ {LastFull(Before(i))} :
                     /\ DateParses(f)
                     /\ Expired(f, prunes[i].now, RETENTION_DAYS)
                     /\ d \in Chain(Before(i), f)}
          /\ After(i) \subseteq Before(i)

\* fulls = [F1, F2, F3], all dates parse, only F1 is expired: F1's chain of two is
\* gone and nothing else
C5_Witness ==
    \E i \in 1..Len(prunes) :
       /\ prunes[i].failed = {}
       /\ Cardinality(Fulls(Before(i))) = 3
       /\ \A f \in Fulls(Before(i)) : DateParses(f)
       /\ \E f \in Fulls(Before(i)) :
             /\ \A g \in Fulls(Before(i)) :
                   Expired(g, prunes[i].now, RETENTION_DAYS) <=> g = f
             /\ Cardinality(Chain(Before(i), f)) = 2
             /\ Gone(i) = Chain(Before(i), f)
             /\ Cardinality(After(i)) >= 4

\* C6: a prune call never removes, nor hands to rmtree, a member of the chain of
\* a FULL set whose date does not parse; and in the same call every member of the
\* chain of every other FULL set but the last, whose date parses and is expired,
\* is handed to rmtree, and is removed unless that deletion failed.
C6_UnparseableSkippedOthersPruned ==
    \A i \in 1..Len(prunes) :
       \A f \in Fulls(Before(i)) :
          /\ ~DateParses(f) =>
                /\ Chain(Before(i), f) \subseteq After(i)
                /\ Chain(Before(i), f) \cap Range(prunes[i].attempted) = {}
          /\ (/\ DateParses(f)
              /\ f # LastFull(Before(i))
              /\ Expired(f, prunes[i].now, RETENTION_DAYS)) =>
                /\ Chain(Before(i), f) \subseteq Range(prunes[i].attempted)
                /\ Chain(Before(i), f) \cap After(i) \subseteq prunes[i].failed

\* an unparseable FULL, old by its position, kept with its incremental, while an
\* expired chain before it and an expired chain after it were removed
C6_Witness ==
    \E i \in 1..Len(prunes) :
       \E b \in Fulls(Before(i)), e \in Fulls(Before(i)), l \in Fulls(Before(i)) :
          /\ ~DateParses(b)
          /\ StrLess(e, b) /\ StrLess(b, l)
          /\ Cardinality(Chain(Before(i), b)) >= 2
          /\ Chain(Before(i), b) \subseteq After(i)
          /\ Chain(Before(i), e) # {} /\ Chain(Before(i), e) \cap After(i) = {}
          /\ Chain(Before(i), l) # {} /\ Chain(Before(i), l) \cap After(i) = {}

\* C7: a prune call whose listing holds at most one FULL set, or whose backup
\* root is absent, hands nothing to rmtree and leaves the directories as they were.
C7_NothingPrunedWithAtMostOneFull ==
    \A i \in 1..Len(prunes) :
       (Cardinality(Fulls(Before(i))) <= 1 \/ ~prunes[i].root) =>
          /\ prunes[i].attempted = <<>>
          /\ After(i) = Before(i)

\* one FULL older than the retention period with two more directories: all stay
C7_Witness ==
    \E i \in 1..Len(prunes) :
       /\ Cardinality(Fulls(Before(i))) = 1
       /\ Cardinality(Before(i)) >= 3
       /\ \A f \in Fulls(Before(i)) :
             DateParses(f) /\ Expired(f, prunes[i].now, RETENTION_DAYS)
       /\ After(i) = Before(i)

C3_CompleteChainKept ==
    [][Fulls(dirs) # {} =>
          /\ Fulls(dirs') # {}
          /\ \A d \in dirs : StrLeq(LastFull(dirs), d) => d \in dirs']_vars

\* a run created a FULL set and its pruning removed an older chain; the new FULL
\* is the last one and is on disk
C3_Witness ==
    /\ pc = "idle"
    /\ outcome = "success"
    /\ Len(prunes) = 1
    /\ Gone(1) # {}
    /\ backup_path \subseteq dirs
    /\ \E n \in backup_path : n.suffix = "_full" /\ n = LastFull(dirs)

\* C4: a run whose backup command failed has exit status 1, called
\* prune_old_backups not at all and left every directory as it was when the run
\* began; and prune_old_backups is only reached with the new backup directory
\* and its manifest written by a backup command that succeeded.
C4_FailedBackupSkipsPruning ==
    /\ (pc = "idle" /\ outcome = "backup_failed") =>
          /\ exitCode = 1
          /\ prunes = NoPrunes
          /\ dirs = dirsAtStart
    /\ (pc = "prune" \/ prunes # NoPrunes) =>
          /\ backup_path # {}
          /\ backup_path \cap dirsAtStart = {}
    /\ pc = "prune" =>
          /\ backup_path \subseteq dirs
          /\ backup_path \subseteq manifests

\* a run ended by a failed backup command although pruning, had the backup been
\* written, would have found directories to delete
C4_Witness ==
    /\ pc = "idle"
    /\ outcome = "backup_failed"
    /\ backup_path # {}
    /\ Len(prune_old_backups(Ascending(dirs \cup backup_path), TRUE, clock,
                             RETENTION_DAYS)) >= 2

C10_AnchorIsGreatestName ==
    /\ (pc = "run_command" /\ manifest_path # {}) =>
          /\ dirsAtStart # {}
          /\ Range(listed) = dirsAtStart
          /\ manifest_path = {MaxName(dirsAtStart)}
          /\ manifest_path = latest_backup_path
          /\ manifest_path \subseteq manifests
    /\ (pc = "idle" /\ outcome = "manifest_missing") =>
          /\ latest_backup_path = {MaxName(dirsAtStart)}
          /\ latest_backup_path \cap manifests = {}

\* an incremental planned from a listing of at least three directories whose
\* last entry is not the greatest name
C10_Witness ==
    /\ pc = "run_command"
    /\ manifest_path # {}
    /\ Len(listed) >= 3
    /\ listed[Len(listed)] \notin manifest_path
    /\ listed[1] \notin manifest_path

\* C11: a run that plans an INCREMENTAL and finds no backup_manifest in the latest
\* backup directory exits with status 1 before pg_basebackup is started: no
\* directory is planned or written, prune_old_backups is not called and the
\* backup root holds what it held when the run began.  It does not fall back to a
\* FULL: a backup is only ever started on a latest directory without manifest when
\* the day is the full-backup day, and every incremental that is started is given
\* a manifest that exists.
C11_MissingManifestAborts ==
    /\ (pc = "idle" /\ outcome = "manifest_missing") =>
          /\ exitCode = 1
          /\ returncode = {}
          /\ backup_path = {}
          /\ manifest_path = {}
          /\ prunes = NoPrunes
          /\ dirs = dirsAtStart
    /\ (pc = "run_command" /\ manifest_path # {}) =>
          /\ manifest_path \subseteq manifests
          /\ \A n \in backup_path : n.suffix = "_incremental"
    /\ (pc \in {"run_command", "prune"} /\ latest_backup_path # {}
          /\ ~(latest_backup_path \subseteq manifests \cap dirsAtStart)) =>
          /\ DayOfMonth(today) = FULL_BACKUP_DAY
          /\ \A n \in backup_path : n.suffix = "_full"

\* a run ended on the missing manifest although pruning had something to delete
C11_Witness ==
    /\ pc = "idle"
    /\ outcome = "manifest_missing"
    /\ latest_backup_path # {}
    /\ DayOfMonth(today) # FULL_BACKUP_DAY
    /\ \E l \in listdir(dirs) :
          prune_old_backups(l, rootExists, clock, RETENTION_DAYS) # <<>>

\* C12: a run started without PGUSER or without PGHOST exits with status 1 before
\* anything is planned: the backup root is not created or listed, no directory
\* is planned or written, pg_basebackup is not started, nothing is pruned.
C12_MissingConfigAborts ==
    /\ (pc = "idle" /\ runs > 0 /\ (~PG_USER \/ ~PG_HOST)) =>
          /\ outcome = "config_missing"
          /\ exitCode = 1
          /\ returncode = {}
          /\ listed = <<>>
          /\ latest_backup_path = {}
          /\ backup_path = {}
          /\ manifest_path = {}
          /\ prunes = NoPrunes
          /\ dirs = dirsAtStart
    /\ pc # "idle" => PG_USER /\ PG_HOST

\* a run without PGHOST ended while the backup root still did not exist
C12_Witness ==
    /\ pc = "idle"
    /\ runs > 0
    /\ PG_USER
    /\ ~PG_HOST
    /\ outcome = "config_missing"
    /\ ~rootExists

\* C13: a prune call in which some rmtree failed still handed to rmtree every
\* member of every chain whose FULL is not the last one, has a date that parses
\* and is expired, and every directory whose rmtree did not fail is gone.
C13_FailureDoesNotStopDeletion ==
    \A i \in 1..Len(prunes) :
       prunes[i].failed # {} =>
          /\ \A f \in Fulls(Before(i)) :
                (f # LastFull(Before(i)) /\ DateParses(f)
                   /\ Expired(f, prunes[i].now, RETENTION_DAYS))
                => Chain(Before(i), f) \subseteq Range(prunes[i].attempted)
          /\ Deleted(prunes[i]) \cap After(i) = {}
          /\ prunes[i].failed \subseteq After(i)

\* an rmtree failed, and a directory of the same chain and a directory of another
\* chain were removed after it
C13_Witness ==
    \E i \in 1..Len(prunes) :
       \E j, k, l \in 1..Len(prunes[i].attempted) :
          LET a == prunes[i].attempted
          IN  /\ j < k
              /\ k < l
              /\ a[j] \in prunes[i].failed
              /\ a[j].suffix = "_full"
              /\ a[k].suffix = "_incremental"
              /\ a[l].suffix = "_full"
              /\ {a[k], a[l]} \cap prunes[i].failed = {}
              /\ {a[k], a[l]} \cap After(i) = {}

CreatedAt(f) ==
    ((((f.month - 1) * DaysInMonth) + (f.day - 1)) * TicksPerDay) + f.time

C16_LeftoversDeletedByNextPrune ==
    \A i \in 2..Len(prunes) :
       (prunes[i - 1].failed # {} /\ prunes[i].failed = {}) =>
          \A f \in Fulls(Before(i - 1)) :
             (f # LastFull(Before(i - 1)) /\ DateParses(f)
                /\ Expired(f, prunes[i - 1].now, RETENTION_DAYS))
             => Chain(Before(i - 1), f) \cap After(i) = {}

C19_NewBackupSurvivesOwnPrune ==
    (pc = "idle" /\ outcome = "success" /\ Len(prunes) = 1) =>
       /\ backup_path \cap Range(prunes[1].attempted) = {}
       /\ backup_path \subseteq dirs

\* n is on disk and is a FULL, or was built on a directory that is restorable
RECURSIVE Restorable(_, _)
Restorable(n, depth) ==
    /\ n \in dirs
    /\ \/ n.suffix = "_full"
       \/ /\ depth > 0
          /\ \E m \in made :
                /\ m.name = n
                /\ m.anchor # {}
                /\ \A a \in m.anchor : Restorable(a, depth - 1)

====
